---- MODULE Spec2Model ----
(***************************************************************************)
(* A model of SSRCMap (src/receive/SSRCMap.ts): a registry that maps audio *)
(* SSRCs to the known data of users in a voice connection, with change     *)
(* notifications ('new', 'update', 'delete') and a timed asynchronous      *)
(* lookup (resolve).                                                       *)
(*                                                                         *)
(* JavaScript values are modelled as follows.  A VoiceUserData object is a *)
(* function whose domain is the set of the object's own properties, a      *)
(* subset of {"audioSSRC", "videoSSRC", "userId"}.  `undefined` is the     *)
(* record Undefined.  An argument whose runtime type the code inspects     *)
(* (typeof x === 'number') is tagged with its type: [number |-> n] or      *)
(* [string |-> s].  The Map is the sequence of its entries in insertion    *)
(* order, which is the iteration order of a JavaScript Map.                *)
(***************************************************************************)
EXTENDS Integers, Sequences, FiniteSets, TLC

\* Bounds of the model.
MaxSSRC == 2        \* audio SSRCs are 1..MaxSSRC
MaxVideoSSRC == 2   \* video SSRCs are 1..MaxVideoSSRC
MaxResolves == 2    \* number of resolve() calls in one behaviour

AudioSSRCs == 1..MaxSSRC
VideoSSRCs == 1..MaxVideoSSRC
UserIds == {"u1", "u2"}
MaxTimes == {50}
PromiseIds == 1..MaxResolves

Undefined == [undefined |-> TRUE]
Num(n) == [number |-> n]
Str(s) == [string |-> s]
IsNumber(x) == "number" \in DOMAIN x

\* The records update() is called with: audioSSRC is always present, the
\* other two properties may be missing.
UpdateData ==
  UNION { { [audioSSRC |-> a],
            [audioSSRC |-> a, userId |-> u],
            [audioSSRC |-> a, videoSSRC |-> v],
            [audioSSRC |-> a, videoSSRC |-> v, userId |-> u] } :
          <<a, v, u>> \in AudioSSRCs \X VideoSSRCs \X UserIds }

\* The same records without a video stream.
UpdateDataNoVideo == { data \in UpdateData : "videoSSRC" \notin DOMAIN data }

\* The records of the declared type VoiceUserData, where userId is required.
UpdateDataTyped == { data \in UpdateDataNoVideo : "userId" \in DOMAIN data }

\* The targets get() and delete() are called with.
Targets == { Num(a) : a \in AudioSSRCs } \cup { Str(u) : u \in UserIds }

\* The maxTime arguments resolve() is called with.
MaxTimeArgs == { Undefined } \cup { Num(t) : t \in MaxTimes }

VARIABLES
  map,        \* the underlying Map: sequence of entries [key, val]
  resolves,   \* per resolve() call: its closure and the promise it returned
  listeners,  \* the listeners of 'new', in registration order (promise ids)
  timers,     \* the scheduled timeouts (promise ids)
  lastOp,     \* the call made by the last step
  ret,        \* what that call returned
  emitted     \* the notifications that call emitted, in order

vars == <<map, resolves, listeners, timers, lastOp, ret, emitted>>

----------------------------------------------------------------------------
\* The JavaScript Map.

MapIndex(m, k) == { i \in 1..Len(m) : m[i].key = k }
MapHas(m, k) == MapIndex(m, k) # {}
MapGet(m, k) ==
  IF MapHas(m, k) THEN m[CHOOSE i \in MapIndex(m, k) : TRUE].val ELSE Undefined
MapSetAppend(m, k, v) == Append(m, [key |-> k, val |-> v])
MapSetMoveToEnd(m, k, v) ==
  Append(SelectSeq(m, LAMBDA e : e.key # k), [key |-> k, val |-> v])
MapSet(m, k, v) ==
  IF MapHas(m, k)
  THEN [i \in 1..Len(m) |-> IF m[i].key = k THEN [key |-> k, val |-> v] ELSE m[i]]
  ELSE Append(m, [key |-> k, val |-> v])
MapDelete(m, k) == SelectSeq(m, LAMBDA e : e.key # k)
MapKeys(m) == { m[i].key : i \in 1..Len(m) }

\* data.userId === target, for a string target
HasUserId(data, target) == "userId" \in DOMAIN data /\ data.userId = target

\* { ...existing, ...data }
MergeReplace(existing, data) == data
Merge(existing, data) ==
  LET e == IF existing = Undefined THEN <<>> ELSE existing
  IN  [f \in (DOMAIN e \cup DOMAIN data) |->
         IF f \in DOMAIN data THEN data[f] ELSE e[f]]

\* A notification as a subscriber observes it: the event, its arguments and
\* the contents of the map at the moment of the emit.
Event(type, args, m) == [type |-> type, args |-> args, map |-> m]

----------------------------------------------------------------------------
\* get(target)
MatchIndex(m, userId) == { i \in 1..Len(m) : HasUserId(m[i].val, userId) }
Min(S) == CHOOSE x \in S : \A y \in S : x <= y
Max(S) == CHOOSE x \in S : \A y \in S : x >= y

GetLast(m, target) ==
  IF IsNumber(target) THEN MapGet(m, target.number)
  ELSE IF MatchIndex(m, target.string) = {} THEN Undefined
       ELSE m[Max(MatchIndex(m, target.string))].val
Get(m, target) ==
  IF IsNumber(target) THEN MapGet(m, target.number)
  ELSE IF MatchIndex(m, target.string) = {} THEN Undefined
       ELSE m[Min(MatchIndex(m, target.string))].val

----------------------------------------------------------------------------
\* update(data): the new map and the notifications, in order of emission.
UpdateResultAlwaysNew(m, data) ==
  LET existing == MapGet(m, data.audioSSRC)
      newValue == Merge(MapGet(m, data.audioSSRC), data)
      m2 == MapSet(m, data.audioSSRC, newValue)
  IN  [map |-> m2,
       emitted |-> << Event("new", <<newValue>>, m2),
                      Event("update", <<existing, newValue>>, m2) >>]
UpdateResultUpdateFirst(m, data) ==
  LET existing == MapGet(m, data.audioSSRC)
      newValue == Merge(MapGet(m, data.audioSSRC), data)
      m2 == MapSet(m, data.audioSSRC, newValue)
  IN  [map |-> m2,
       emitted |-> << Event("update", <<existing, newValue>>, m2) >>
                   \o (IF existing = Undefined
                       THEN << Event("new", <<newValue>>, m2) >> ELSE << >>)]
UpdateResultOnePerUser(m, data) ==
  LET existing == MapGet(m, data.audioSSRC)
      newValue == Merge(MapGet(m, data.audioSSRC), data)
      others == SelectSeq(m, LAMBDA e :
                  \/ e.key = data.audioSSRC
                  \/ "userId" \notin DOMAIN newValue
                  \/ ~HasUserId(e.val, newValue.userId))
      m2 == MapSet(others, data.audioSSRC, newValue)
  IN  [map |-> m2,
       emitted |-> (IF existing = Undefined
                    THEN << Event("new", <<newValue>>, m2) >> ELSE << >>)
                   \o << Event("update", <<existing, newValue>>, m2) >>]
UpdateResult(m, data) ==
  LET existing == MapGet(m, data.audioSSRC)
      newValue == Merge(MapGet(m, data.audioSSRC), data)
      m2 == MapSet(m, data.audioSSRC, newValue)
  IN  [map |-> m2,
       emitted |-> (IF existing = Undefined
                    THEN << Event("new", <<newValue>>, m2) >> ELSE << >>)
                   \o << Event("update", <<existing, newValue>>, m2) >>]

\* delete(target): the new map, the returned value and the notifications.
DeleteResultKeep(m, target) ==
  IF IsNumber(target)
  THEN LET existing == MapGet(m, target.number)
       IN  IF existing # Undefined
           THEN [map |-> m, ret |-> existing,
                 emitted |-> << Event("delete", <<existing>>, m) >>]
           ELSE [map |-> m, ret |-> existing, emitted |-> << >>]
  ELSE IF MatchIndex(m, target.string) # {}
       THEN LET entry == m[Min(MatchIndex(m, target.string))]
            IN  [map |-> m, ret |-> entry.val,
                 emitted |-> << Event("delete", <<entry.val>>, m) >>]
       ELSE [map |-> m, ret |-> Undefined, emitted |-> << >>]
DeleteResultAlwaysEmit(m, target) ==
  IF IsNumber(target)
  THEN LET existing == MapGet(m, target.number)
           m2 == MapDelete(m, target.number)
       IN  [map |-> m2, ret |-> existing,
            emitted |-> << Event("delete", <<existing>>, m2) >>]
  ELSE IF MatchIndex(m, target.string) # {}
       THEN LET entry == m[Min(MatchIndex(m, target.string))]
                m2 == MapDelete(m, entry.key)
            IN  [map |-> m2, ret |-> entry.val,
                 emitted |-> << Event("delete", <<entry.val>>, m2) >>]
       ELSE [map |-> m, ret |-> Undefined, emitted |-> << >>]
DeleteResult(m, target) ==
  IF IsNumber(target)
  THEN LET existing == MapGet(m, target.number)
       IN  IF existing # Undefined
           THEN LET m2 == MapDelete(m, target.number)
                IN  [map |-> m2, ret |-> existing,
                     emitted |-> << Event("delete", <<existing>>, m2) >>]
           ELSE [map |-> m, ret |-> existing, emitted |-> << >>]
  ELSE IF MatchIndex(m, target.string) # {}
       THEN LET entry == m[Min(MatchIndex(m, target.string))]
                m2 == MapDelete(m, entry.key)
            IN  [map |-> m2, ret |-> entry.val,
                 emitted |-> << Event("delete", <<entry.val>>, m2) >>]
       ELSE [map |-> m, ret |-> Undefined, emitted |-> << >>]

----------------------------------------------------------------------------
\* Promises and the emitter.  st is [resolves, listeners, timers].

NoCall == [called |-> FALSE]
\* resolve(value) / reject(reason) of a promise: only the first call settles
Settle(rs, i, state, value) ==
  [rs EXCEPT ![i] =
     IF @.state = "pending"
     THEN [@ EXCEPT !.state = state, !.value = value, !.settleCalls = @ + 1]
     ELSE [@ EXCEPT !.settleCalls = @ + 1]]

\* this.off('new', onNew)
Off(ls, i) == SelectSeq(ls, LAMBDA j : j # i)

\* the listener onNew of resolve call i
OnNewNoClear(st, i, userData) ==
  IF HasUserId(userData, st.resolves[i].target)
  THEN [resolves |-> Settle(st.resolves, i, "fulfilled", userData),
        listeners |-> Off(st.listeners, i),
        timers |-> st.timers]
  ELSE st
OnNew(st, i, userData) ==
  IF HasUserId(userData, st.resolves[i].target)
  THEN [resolves |-> Settle(st.resolves, i, "fulfilled", userData),
        listeners |-> Off(st.listeners, i),
        timers |-> IF IsNumber(st.resolves[i].maxTime)
                   THEN st.timers \ {i} ELSE st.timers]
  ELSE st

\* the callback of the setTimeout of resolve call i
TimeoutError(target, maxTime) ==
  [error |-> "Did not find SSRC for user", target |-> target, maxTime |-> maxTime]
OnTimeoutNoOff(st, i) ==
  [resolves |-> Settle(st.resolves, i, "rejected",
                       TimeoutError(st.resolves[i].target,
                                    st.resolves[i].maxTime.number)),
   listeners |-> st.listeners,
   timers |-> st.timers \ {i}]
OnTimeout(st, i) ==
  [resolves |-> Settle(st.resolves, i, "rejected",
                       TimeoutError(st.resolves[i].target,
                                    st.resolves[i].maxTime.number)),
   listeners |-> Off(st.listeners, i),
   timers |-> st.timers \ {i}]

\* emit(type, ...args): every listener registered at the time of the emit is
\* called, in registration order.  Only 'new' has listeners in this class.
RECURSIVE CallListenersFirstOnly(_, _, _)
CallListenersFirstOnly(st, ids, userData) ==
  IF ids = << >> THEN st
  ELSE IF HasUserId(userData, st.resolves[Head(ids)].target)
       THEN OnNew(st, Head(ids), userData)
       ELSE CallListenersFirstOnly(st, Tail(ids), userData)

RECURSIVE CallListeners(_, _, _)
CallListeners(st, ids, userData) ==
  IF ids = << >> THEN st
  ELSE CallListeners(OnNew(st, Head(ids), userData), Tail(ids), userData)

RECURSIVE EmitAll(_, _)
EmitAll(st, events) ==
  IF events = << >> THEN st
  ELSE EmitAll(IF Head(events).type = "new"
               THEN CallListeners(st, st.listeners, Head(events).args[1])
               ELSE st,
               Tail(events))

\* resolve(target, maxTime), as call number i
ResolveResultSubscribes(st, m, i, target, maxTime) ==
  LET existing == Get(m, Str(target))
      call == [called |-> TRUE, target |-> target, maxTime |-> maxTime,
               settleCalls |-> 0]
  IN  [resolves |-> [st.resolves EXCEPT ![i] =
                       IF existing # Undefined
                       THEN call @@ [state |-> "fulfilled", value |-> existing]
                       ELSE call @@ [state |-> "pending", value |-> Undefined]],
       timers |-> IF IsNumber(maxTime) THEN st.timers \cup {i} ELSE st.timers,
       listeners |-> Append(st.listeners, i)]
ResolveResultNoFastPath(st, m, i, target, maxTime) ==
  LET call == [called |-> TRUE, target |-> target, maxTime |-> maxTime,
               settleCalls |-> 0]
  IN  [resolves |-> [st.resolves EXCEPT ![i] =
                       call @@ [state |-> "pending", value |-> Undefined]],
       timers |-> IF IsNumber(maxTime) THEN st.timers \cup {i} ELSE st.timers,
       listeners |-> Append(st.listeners, i)]
ResolveResultNoTimer(st, m, i, target, maxTime) ==
  LET existing == Get(m, Str(target))
      call == [called |-> TRUE, target |-> target, maxTime |-> maxTime,
               settleCalls |-> 0]
  IN  IF existing # Undefined
      THEN [st EXCEPT !.resolves[i] =
              call @@ [state |-> "fulfilled", value |-> existing]]
      ELSE [resolves |-> [st.resolves EXCEPT ![i] =
                            call @@ [state |-> "pending", value |-> Undefined]],
            timers |-> st.timers,
            listeners |-> Append(st.listeners, i)]
ResolveResult(st, m, i, target, maxTime) ==
  LET existing == Get(m, Str(target))
      call == [called |-> TRUE, target |-> target, maxTime |-> maxTime,
               settleCalls |-> 0]
  IN  IF existing # Undefined
      THEN [st EXCEPT !.resolves[i] =
              call @@ [state |-> "fulfilled", value |-> existing]]
      ELSE [resolves |-> [st.resolves EXCEPT ![i] =
                            call @@ [state |-> "pending", value |-> Undefined]],
            timers |-> IF IsNumber(maxTime) THEN st.timers \cup {i} ELSE st.timers,
            listeners |-> Append(st.listeners, i)]

----------------------------------------------------------------------------
CountType(events, type) ==
  Cardinality({ j \in 1..Len(events) : events[j].type = type })

State == [resolves |-> resolves, listeners |-> listeners, timers |-> timers]

Init ==
  /\ map = << >>
  /\ resolves = [i \in PromiseIds |-> NoCall]
  /\ listeners = << >>
  /\ timers = {}
  /\ lastOp = [op |-> "init", arg |-> Undefined]
  /\ ret = Undefined
  /\ emitted = << >>

Update(data) ==
  LET r == UpdateResult(map, data)
      st == EmitAll(State, r.emitted)
  IN  /\ map' = r.map
      /\ resolves' = st.resolves
      /\ listeners' = st.listeners
      /\ timers' = st.timers
      /\ lastOp' = [op |-> "update", arg |-> data]
      /\ ret' = Undefined
      /\ emitted' = r.emitted

Delete(target) ==
  LET r == DeleteResult(map, target)
      st == EmitAll(State, r.emitted)
  IN  /\ map' = r.map
      /\ resolves' = st.resolves
      /\ listeners' = st.listeners
      /\ timers' = st.timers
      /\ lastOp' = [op |-> "delete", arg |-> target]
      /\ ret' = r.ret
      /\ emitted' = r.emitted

NextId == Cardinality({ i \in PromiseIds : resolves[i].called }) + 1

Resolve(target, maxTime) ==
  /\ NextId <= MaxResolves
  /\ LET st == ResolveResult(State, map, NextId, target, maxTime)
     IN  /\ resolves' = st.resolves
         /\ listeners' = st.listeners
         /\ timers' = st.timers
         /\ lastOp' = [op |-> "resolve",
                       arg |-> [id |-> NextId, target |-> target, maxTime |-> maxTime]]
         /\ ret' = [promise |-> NextId]
  /\ emitted' = << >>
  /\ UNCHANGED map

\* the timer of resolve call i expires
Timeout(i) ==
  /\ i \in timers
  /\ LET st == OnTimeout(State, i)
     IN  /\ resolves' = st.resolves
         /\ listeners' = st.listeners
         /\ timers' = st.timers
  /\ lastOp' = [op |-> "timeout", arg |-> [id |-> i]]
  /\ ret' = Undefined
  /\ emitted' = << >>
  /\ UNCHANGED map

\* The registry with its asynchronous lookups.  The users have no video
\* stream here: resolve() never looks at videoSSRC.
Next ==
  \/ \E data \in UpdateDataNoVideo : Update(data)
  \/ \E target \in Targets : Delete(target)
  \/ \E target \in UserIds, maxTime \in MaxTimeArgs : Resolve(target, maxTime)
  \/ \E i \in PromiseIds : Timeout(i)

Spec == Init /\ [][Next]_vars

\* The registry alone: update() and delete() with every shape of record.
NextMap ==
  \/ \E data \in UpdateData : Update(data)
  \/ \E target \in Targets : Delete(target)

SpecMap == Init /\ [][NextMap]_vars

\* The registry with its asynchronous lookups, called only with records that
\* have the declared type of update(data: VoiceUserData).
NextTyped ==
  \/ \E data \in UpdateDataTyped : Update(data)
  \/ \E target \in Targets : Delete(target)
  \/ \E target \in UserIds, maxTime \in MaxTimeArgs : Resolve(target, maxTime)
  \/ \E i \in PromiseIds : Timeout(i)

SpecTyped == Init /\ [][NextTyped]_vars

\* The same with the timers of Node.js: a scheduled timeout that is not
\* cleared expires.
FairSpec == Spec /\ \A i \in PromiseIds : WF_vars(Timeout(i))

----------------------------------------------------------------------------
\* Properties.

Fields == {"audioSSRC", "videoSSRC", "userId"}
\* the objects stored in the map, in insertion order
Values(m) == [i \in 1..Len(m) |-> m[i].val]
\* object a has property f with the value it has in object b
SameField(a, b, f) == f \in DOMAIN a /\ f \in DOMAIN b /\ a[f] = b[f]

\* C1 (merge semantics): an update stores the field-level merge.  Every field
\* of the new data is stored with the value of the new data; every field the
\* new data lacks keeps the value of the binding stored before the call, or
\* stays absent if there was none.  In particular an update with audioSSRC
\* and videoSSRC but no userId on a stored binding B leaves B with only
\* videoSSRC replaced and userId unchanged.
C1_MergeStep ==
  lastOp'.op = "update" =>
    LET data == lastOp'.arg
        B == MapGet(map, data.audioSSRC)
        A == MapGet(map', data.audioSSRC)
    IN  /\ A # Undefined
        /\ \A f \in Fields :
             IF f \in DOMAIN data THEN SameField(A, data, f)
             ELSE IF B # Undefined /\ f \in DOMAIN B THEN SameField(A, B, f)
             ELSE f \notin DOMAIN A
        /\ (B # Undefined /\ DOMAIN data = {"audioSSRC", "videoSSRC"}) =>
             /\ A.videoSSRC = data.videoSSRC
             /\ A.audioSSRC = B.audioSSRC
             /\ IF "userId" \in DOMAIN B THEN SameField(A, B, "userId")
                ELSE "userId" \notin DOMAIN A
C1_Merge == [][C1_MergeStep]_vars

\* the last call was update({audioSSRC, videoSSRC}) on a stored binding that
\* had a userId and another videoSSRC
C1_Witness ==
  /\ lastOp.op = "update"
  /\ DOMAIN lastOp.arg = {"audioSSRC", "videoSSRC"}
  /\ Len(emitted) = 1
  /\ emitted[1].args[1] # Undefined
  /\ "userId" \in DOMAIN emitted[1].args[1]
  /\ "videoSSRC" \in DOMAIN emitted[1].args[1]
  /\ emitted[1].args[1].videoSSRC # lastOp.arg.videoSSRC
  /\ MapGet(map, lastOp.arg.audioSSRC).userId = emitted[1].args[1].userId

\* C2 (dual-key equivalence), as stated: for every stored binding b,
\* get(b.audioSSRC) and get(b.userId) return the same object.
C2_DualKeyAsStated ==
  \A i \in 1..Len(map) :
    "userId" \in DOMAIN map[i].val =>
      Get(map, Num(map[i].val.audioSSRC)) = Get(map, Str(map[i].val.userId))

\* C2, amended: get(b.audioSSRC) and get(b.userId) return the same object
\* exactly when no binding inserted before b has the userId of b; otherwise
\* get(b.userId) returns the earliest inserted binding with that userId.
C2_DualKeyFirst ==
  \A i \in 1..Len(map) :
    "userId" \in DOMAIN map[i].val =>
      LET b == map[i].val
          earlier == { j \in 1..(i - 1) : HasUserId(map[j].val, b.userId) }
      IN  /\ Get(map, Num(b.audioSSRC)) = b
          /\ IF earlier = {} THEN Get(map, Str(b.userId)) = b
             ELSE /\ Get(map, Str(b.userId)) = map[Min(earlier)].val
                  /\ Get(map, Str(b.userId)) # Get(map, Num(b.audioSSRC))

\* an update has just stored a second binding of a user
C2_Witness ==
  /\ lastOp.op = "update"
  /\ \E i, j \in 1..Len(map) :
       /\ i < j
       /\ "userId" \in DOMAIN map[i].val
       /\ HasUserId(map[j].val, map[i].val.userId)
       /\ Get(map, Str(map[i].val.userId)) = map[i].val

\* C3 (delete removes and reports), as stated: a delete that finds a match
\* returns what get(K) returned before the call, and get(K) is absent after.
C3_DeleteAsStatedStep ==
  (lastOp'.op = "delete" /\ Get(map, lastOp'.arg) # Undefined) =>
    /\ ret' = Get(map, lastOp'.arg)
    /\ Get(map', lastOp'.arg) = Undefined
C3_DeleteAsStated == [][C3_DeleteAsStatedStep]_vars

\* C3, amended: a delete that finds a match returns what get(K) returned
\* before the call and removes that binding.  After the call get(K) is absent
\* if K is a number or no other stored binding has userId K; otherwise get(K)
\* returns the next binding of that user in insertion order.
C3_DeleteStep ==
  (lastOp'.op = "delete" /\ Get(map, lastOp'.arg) # Undefined) =>
    LET K == lastOp'.arg
        found == Get(map, K)
    IN  /\ ret' = found
        /\ \A i \in 1..Len(map') : map'[i].val # found
        /\ IF IsNumber(K) \/ Cardinality(MatchIndex(map, K.string)) = 1
           THEN Get(map', K) = Undefined
           ELSE Get(map', K) =
                  map[Min(MatchIndex(map, K.string)
                            \ {Min(MatchIndex(map, K.string))})].val
C3_Delete == [][C3_DeleteStep]_vars

\* the last call deleted by userId one of several bindings of that user
C3_Witness ==
  /\ lastOp.op = "delete"
  /\ ~IsNumber(lastOp.arg)
  /\ ret # Undefined
  /\ Get(map, lastOp.arg) # Undefined

\* C4 (creation-once): every update call emits exactly one 'update'; it emits
\* exactly one 'new' if the key had no binding before the call and none if it
\* had one; the key has a binding after the call, and a key keeps its binding
\* until a delete call removes it.  So of two update calls for a key without
\* a binding, with no delete between them, the first emits the only 'new' and
\* each emits one 'update'.
C4_CreationOnceStep ==
  /\ lastOp'.op = "update" =>
       /\ CountType(emitted', "update") = 1
       /\ CountType(emitted', "new") =
            (IF MapHas(map, lastOp'.arg.audioSSRC) THEN 0 ELSE 1)
       /\ Len(emitted') = CountType(emitted', "update") + CountType(emitted', "new")
       /\ MapHas(map', lastOp'.arg.audioSSRC)
  /\ \A k \in AudioSSRCs :
       (MapHas(map, k) /\ ~MapHas(map', k)) =>
         (lastOp'.op = "delete" /\ ret' = MapGet(map, k))
  /\ lastOp'.op # "update" => CountType(emitted', "new") + CountType(emitted', "update") = 0
C4_CreationOnce == [][C4_CreationOnceStep]_vars

\* the last call was a second update of a key: it emitted 'update' only
C4_Witness ==
  /\ lastOp.op = "update"
  /\ CountType(emitted, "new") = 0
  /\ CountType(emitted, "update") = 1
  /\ emitted[1].args[1] # Undefined
  /\ emitted[1].args[1].audioSSRC = lastOp.arg.audioSSRC

Range(seq) == { seq[j] : j \in 1..Len(seq) }
Called(i) == resolves[i].called
Pending(i) == resolves[i].called /\ resolves[i].state = "pending"

\* C5 (match and timeout are mutually exclusive): the resolve and reject
\* callbacks of a resolve call are invoked at most once in total; once the
\* promise is fulfilled it never changes and its timer never fires; once it is
\* rejected with the timeout error it never changes, whatever creation
\* notification follows.
C5_ExclusiveStep ==
  \A i \in PromiseIds :
    /\ resolves'[i].called => resolves'[i].settleCalls <= 1
    /\ (Called(i) /\ resolves[i].state = "fulfilled") =>
         /\ resolves'[i] = resolves[i]
         /\ ~(lastOp'.op = "timeout" /\ lastOp'.arg.id = i)
    /\ (Called(i) /\ resolves[i].state = "rejected") =>
         /\ resolves'[i] = resolves[i]
         /\ resolves[i].value.target = resolves[i].target
C5_Exclusive == [][C5_ExclusiveStep]_vars

\* a call that timed out stays rejected while a creation notification for its
\* user fulfils a later call that had a deadline
C5_Witness ==
  /\ lastOp.op = "update"
  /\ CountType(emitted, "new") = 1
  /\ \E i, j \in PromiseIds :
       /\ Called(i) /\ resolves[i].state = "rejected"
       /\ Called(j) /\ resolves[j].state = "fulfilled"
       /\ resolves[j].settleCalls = 1
       /\ IsNumber(resolves[j].maxTime)
       /\ resolves[i].target = resolves[j].target
       /\ HasUserId(emitted[1].args[1], resolves[i].target)

\* C6 (resolve fast path): a resolve call made while get(target) finds a
\* binding returns a promise already fulfilled with that binding, and adds
\* no listener and no timer, with or without maxTime.
C6_FastPathStep ==
  (lastOp'.op = "resolve" /\ Get(map, Str(lastOp'.arg.target)) # Undefined) =>
    LET i == lastOp'.arg.id
    IN  /\ resolves'[i].state = "fulfilled"
        /\ resolves'[i].value = Get(map, Str(lastOp'.arg.target))
        /\ listeners' = listeners
        /\ timers' = timers
        /\ map' = map
C6_FastPath == [][C6_FastPathStep]_vars

\* the last call was resolve with a deadline for a user with a binding
C6_Witness ==
  /\ lastOp.op = "resolve"
  /\ IsNumber(lastOp.arg.maxTime)
  /\ Get(map, Str(lastOp.arg.target)) # Undefined
  /\ resolves[lastOp.arg.id].state = "fulfilled"

\* C7 (resolve timeout): when the timer of a pending resolve call expires, the
\* promise is rejected with an error that carries the target and the maxTime
\* of the call, and the listener of the call is removed in that step.
C7_TimeoutStep ==
  (lastOp'.op = "timeout" /\ Pending(lastOp'.arg.id)) =>
    LET i == lastOp'.arg.id
    IN  /\ resolves'[i].state = "rejected"
        /\ resolves'[i].value.target = resolves[i].target
        /\ resolves'[i].value.maxTime = resolves[i].maxTime.number
        /\ i \in Range(listeners)
        /\ i \notin Range(listeners')
        /\ Range(listeners') = Range(listeners) \ {i}
C7_Timeout == [][C7_TimeoutStep]_vars

\* the last step was the expiry of the timer of a resolve call
C7_Witness ==
  /\ lastOp.op = "timeout"
  /\ resolves[lastOp.arg.id].state = "rejected"
  /\ resolves[lastOp.arg.id].value.maxTime \in MaxTimes
  /\ Get(map, Str(resolves[lastOp.arg.id].target)) = Undefined

\* C8 (notification order and payload of update): an update of a key without
\* a binding emits 'new' with the new binding and then 'update' with
\* undefined and the same new binding; an update of a key with a binding
\* emits only 'update', with the binding stored before the call and the one
\* stored after it.  Every notification is emitted after the map was changed:
\* a subscriber sees the map that holds the new binding.
C8_NotifyStep ==
  lastOp'.op = "update" =>
    LET k == lastOp'.arg.audioSSRC
        B == MapGet(map, k)
        A == MapGet(map', k)
    IN  /\ A # Undefined
        /\ IF B = Undefined
           THEN /\ Len(emitted') = 2
                /\ emitted'[1].type = "new"
                /\ emitted'[1].args = << A >>
                /\ emitted'[2].type = "update"
                /\ emitted'[2].args = << Undefined, A >>
           ELSE /\ Len(emitted') = 1
                /\ emitted'[1].type = "update"
                /\ emitted'[1].args = << B, A >>
        /\ \A j \in 1..Len(emitted') : emitted'[j].map = map'
C8_Notify == [][C8_NotifyStep]_vars

\* the last call was the first update of a key, made while another key had a
\* binding
C8_Witness ==
  /\ lastOp.op = "update"
  /\ Len(emitted) = 2
  /\ emitted[1].type = "new"
  /\ emitted[2].type = "update"
  /\ emitted[1].args[1] = MapGet(map, lastOp.arg.audioSSRC)
  /\ Len(map) = 2

\* C9 (delete notifies if and only if it matches): a delete that finds a
\* match emits exactly one 'delete' with the removed binding and returns it;
\* a delete that finds none, by number or by userId, emits nothing, changes
\* nothing and returns undefined.
C9_DeleteNotifyStep ==
  lastOp'.op = "delete" =>
    LET found == Get(map, lastOp'.arg)
    IN  IF found # Undefined
        THEN /\ Len(emitted') = 1
             /\ emitted'[1].type = "delete"
             /\ emitted'[1].args = << found >>
             /\ ret' = found
             /\ Len(map') = Len(map) - 1
             /\ \A i \in 1..Len(map') : map'[i].val # found
        ELSE /\ emitted' = << >>
             /\ ret' = Undefined
             /\ UNCHANGED <<map, resolves, listeners, timers>>
C9_DeleteNotify == [][C9_DeleteNotifyStep]_vars

\* the last call was a delete by userId that found nothing while the map
\* held a binding
C9_Witness ==
  /\ lastOp.op = "delete"
  /\ ~IsNumber(lastOp.arg)
  /\ ret = Undefined
  /\ emitted = << >>
  /\ Len(map) >= 1

\* C10 (resolution only observes creation events): a pending resolve call is
\* fulfilled only in a step that emits 'new' with a binding whose userId is
\* its target, and with that binding; an update of a key that has a binding
\* and a delete leave every resolve call as it was.
C10_CreationOnlyStep ==
  /\ \A i \in PromiseIds :
       (Pending(i) /\ resolves'[i].state = "fulfilled") =>
         /\ lastOp'.op = "update"
         /\ ~MapHas(map, lastOp'.arg.audioSSRC)
         /\ \E j \in 1..Len(emitted') :
              /\ emitted'[j].type = "new"
              /\ HasUserId(emitted'[j].args[1], resolves[i].target)
              /\ resolves'[i].value = emitted'[j].args[1]
              /\ resolves'[i].value = MapGet(map', lastOp'.arg.audioSSRC)
  /\ (lastOp'.op = "update" /\ MapHas(map, lastOp'.arg.audioSSRC)) =>
       UNCHANGED <<resolves, listeners, timers>>
  /\ lastOp'.op = "delete" => UNCHANGED <<resolves, listeners, timers>>
C10_CreationOnly == [][C10_CreationOnlyStep]_vars

\* the last call was an update that gave a stored binding the userId a
\* pending resolve call waits for, and the call is still pending
C10_Witness ==
  /\ lastOp.op = "update"
  /\ Len(emitted) = 1
  /\ emitted[1].type = "update"
  /\ \E i \in PromiseIds :
       /\ Pending(i)
       /\ ~HasUserId(emitted[1].args[1], resolves[i].target)
       /\ HasUserId(emitted[1].args[2], resolves[i].target)
       /\ i \in Range(listeners)

\* C11 (key invariant): the map holds at most one binding per audioSSRC, and
\* the audioSSRC of every stored binding is the key it is stored under.
C11_KeyInvariant ==
  /\ \A i, j \in 1..Len(map) : map[i].key = map[j].key => i = j
  /\ \A i \in 1..Len(map) :
       /\ "audioSSRC" \in DOMAIN map[i].val
       /\ map[i].val.audioSSRC = map[i].key
       /\ map[i].key \in AudioSSRCs
  /\ Len(map) <= MaxSSRC

\* the last call updated again the first of several stored keys
C11_Witness ==
  /\ lastOp.op = "update"
  /\ Len(emitted) = 1
  /\ Len(map) = MaxSSRC
  /\ map[1].key = lastOp.arg.audioSSRC
  /\ emitted[1].args[1] # emitted[1].args[2]

\* C12 (coexistence): an update for key K leaves every entry of another key
\* as it was, in the same order.  In particular an update that gives a new
\* key K2 to a user who has a binding under K1 adds a second binding and
\* leaves the one under K1 stored and unchanged.
C12_CoexistStep ==
  lastOp'.op = "update" =>
    LET data == lastOp'.arg
        K2 == data.audioSSRC
    IN  /\ \A k \in AudioSSRCs \ {K2} : MapGet(map', k) = MapGet(map, k)
        /\ SelectSeq(map', LAMBDA e : e.key # K2)
             = SelectSeq(map, LAMBDA e : e.key # K2)
        /\ ("userId" \in DOMAIN data /\ ~MapHas(map, K2)
              /\ MatchIndex(map, data.userId) # {}) =>
             /\ Len(map') = Len(map) + 1
             /\ HasUserId(MapGet(map', K2), data.userId)
             /\ MatchIndex(map', data.userId)
                  = MatchIndex(map, data.userId) \cup {Len(map')}
C12_Coexist == [][C12_CoexistStep]_vars

\* the last call created a second binding for a user who had one
C12_Witness ==
  /\ lastOp.op = "update"
  /\ Len(emitted) = 2
  /\ "userId" \in DOMAIN lastOp.arg
  /\ \E i \in 1..Len(map) :
       /\ map[i].key # lastOp.arg.audioSSRC
       /\ HasUserId(map[i].val, lastOp.arg.userId)
       /\ "videoSSRC" \in DOMAIN map[i].val

\* C13 (a pending waiter never coexists with a known binding), as stated:
\* while a resolve call is pending, get(target) is undefined.
C13_NoBindingWhilePending ==
  \A i \in PromiseIds :
    Pending(i) => Get(map, Str(resolves[i].target)) = Undefined

\* C13, amended: get(target) is undefined when a resolve call starts to wait,
\* and no step that creates a binding of the target leaves the call pending.
\* A call is pending while get(target) finds a binding only after an update
\* of a key that already had a binding gave that binding the userId target,
\* which emits no 'new'.
C13_PendingStep ==
  \A i \in PromiseIds :
    (resolves'[i].called /\ resolves'[i].state = "pending"
       /\ Get(map', Str(resolves'[i].target)) # Undefined) =>
      /\ Pending(i)
      /\ \/ Get(map, Str(resolves[i].target)) # Undefined
         \/ /\ lastOp'.op = "update"
            /\ MapHas(map, lastOp'.arg.audioSSRC)
            /\ HasUserId(lastOp'.arg, resolves[i].target)
            /\ CountType(emitted', "new") = 0
C13_Pending == [][C13_PendingStep]_vars

\* the last call gave a stored binding the userId a pending call waits for
C13_Witness ==
  /\ lastOp.op = "update"
  /\ CountType(emitted, "new") = 0
  /\ \E i \in PromiseIds :
       /\ Pending(i)
       /\ HasUserId(lastOp.arg, resolves[i].target)
       /\ Get(map, Str(resolves[i].target)) = MapGet(map, lastOp.arg.audioSSRC)
       /\ IsNumber(resolves[i].maxTime)
       /\ i \in timers

\* C14 (no dangling subscription or timer): the listeners of 'new' are
\* exactly the pending resolve calls, each once, and the scheduled timers are
\* exactly the pending calls that were given a maxTime.  So the step that
\* settles a call removes its listener and its timer.
C14_NoDangling ==
  /\ Range(listeners) = { i \in PromiseIds : Pending(i) }
  /\ Len(listeners) = Cardinality(Range(listeners))
  /\ timers = { i \in PromiseIds : Pending(i) /\ IsNumber(resolves[i].maxTime) }

\* a creation has just fulfilled a call that had a timer while another call
\* with a timer is still pending
C14_Witness ==
  /\ lastOp.op = "update"
  /\ CountType(emitted, "new") = 1
  /\ \E i, j \in PromiseIds :
       /\ Called(i) /\ resolves[i].state = "fulfilled"
       /\ resolves[i].settleCalls = 1
       /\ IsNumber(resolves[i].maxTime)
       /\ resolves[i].value = emitted[1].args[1]
       /\ Pending(j)
       /\ j \in timers

\* the keys of the map, in iteration order
KeySeq(m) == [i \in 1..Len(m) |-> m[i].key]
\* the sequence without its i-th element
Without(seq, i) == SubSeq(seq, 1, i - 1) \o SubSeq(seq, i + 1, Len(seq))

\* C17 (first match by insertion order): get(P) returns the stored binding of
\* user P that comes first in the order of the map, and delete(P) removes
\* that entry and no other.  The order of the map is the order of insertion:
\* an update of a stored key leaves the order of the keys as it is, an update
\* of a key that is not stored (never seen or deleted) puts it last, and a
\* delete keeps the order of the entries that remain.
C17_FirstMatchStep ==
  /\ \A P \in UserIds : \A i \in 1..Len(map') :
       (HasUserId(map'[i].val, P)
          /\ \A j \in 1..(i - 1) : ~HasUserId(map'[j].val, P)) =>
         Get(map', Str(P)) = map'[i].val
  /\ lastOp'.op = "update" =>
       IF MapHas(map, lastOp'.arg.audioSSRC)
       THEN KeySeq(map') = KeySeq(map)
       ELSE KeySeq(map') = Append(KeySeq(map), lastOp'.arg.audioSSRC)
  /\ (lastOp'.op = "delete" /\ ~IsNumber(lastOp'.arg)) =>
       \A i \in 1..Len(map) :
         (HasUserId(map[i].val, lastOp'.arg.string)
            /\ \A j \in 1..(i - 1) : ~HasUserId(map[j].val, lastOp'.arg.string)) =>
           /\ ret' = map[i].val
           /\ map' = Without(map, i)
  /\ (lastOp'.op = "delete" /\ IsNumber(lastOp'.arg)) =>
       map' = SelectSeq(map, LAMBDA e : e.key # lastOp'.arg.number)
C17_FirstMatch == [][C17_FirstMatchStep]_vars

\* the last call updated the first of two bindings of a user, and get by the
\* userId still returns that binding
C17_Witness ==
  /\ lastOp.op = "update"
  /\ Len(emitted) = 1
  /\ Len(map) >= 2
  /\ map[1].key = lastOp.arg.audioSSRC
  /\ "userId" \in DOMAIN map[1].val
  /\ HasUserId(map[2].val, map[1].val.userId)
  /\ Get(map, Str(map[1].val.userId)) = map[1].val
  /\ emitted[1].args[1] # emitted[1].args[2]

\* C18 (multiple waiters): a 'new' notification with a binding of user P
\* fulfils every pending resolve call for P with that binding and removes
\* the listener and the timer of each; every pending call for another user
\* stays as it is, with its listener and its timer.
C18_WaitersStep ==
  \A n \in 1..Len(emitted') :
    emitted'[n].type = "new" =>
      LET b == emitted'[n].args[1]
          woken == { i \in PromiseIds : Pending(i) /\ HasUserId(b, resolves[i].target) }
      IN  /\ \A i \in woken :
                /\ resolves'[i].state = "fulfilled"
                /\ resolves'[i].value = b
                /\ resolves'[i].settleCalls = 1
          /\ \A i \in PromiseIds \ woken : resolves'[i] = resolves[i]
          /\ listeners' = SelectSeq(listeners, LAMBDA i : i \notin woken)
          /\ timers' = timers \ woken
C18_Waiters == [][C18_WaitersStep]_vars

\* one creation has just fulfilled two calls, one with and one without a
\* maxTime
C18_Witness ==
  /\ lastOp.op = "update"
  /\ CountType(emitted, "new") = 1
  /\ \E i, j \in PromiseIds :
       /\ i # j
       /\ Called(i) /\ resolves[i].state = "fulfilled" /\ resolves[i].settleCalls = 1
       /\ Called(j) /\ resolves[j].state = "fulfilled" /\ resolves[j].settleCalls = 1
       /\ resolves[i].value = emitted[1].args[1]
       /\ resolves[j].value = emitted[1].args[1]
       /\ IsNumber(resolves[i].maxTime)
       /\ ~IsNumber(resolves[j].maxTime)
       /\ listeners = << >>
       /\ timers = {}

\* C15 (a resolve call with a deadline eventually settles): a pending call
\* that was given a maxTime is eventually fulfilled or rejected, whatever
\* updates and deletes are made; a pending call without maxTime stops being
\* pending only in a step that emits 'new' with a binding of its target.
WaitsWithDeadline(i) == Pending(i) /\ IsNumber(resolves[i].maxTime)
Settled(i) == Called(i) /\ resolves[i].state \in {"fulfilled", "rejected"}
C15_NoDeadlineStep ==
  \A i \in PromiseIds :
    (Pending(i) /\ ~IsNumber(resolves[i].maxTime) /\ resolves'[i] # resolves[i]) =>
      /\ resolves'[i].state = "fulfilled"
      /\ \E n \in 1..Len(emitted') :
           /\ emitted'[n].type = "new"
           /\ HasUserId(emitted'[n].args[1], resolves[i].target)
C15_Settles ==
  /\ \A i \in PromiseIds : WaitsWithDeadline(i) ~> Settled(i)
  /\ [][C15_NoDeadlineStep]_vars

\* a call with a maxTime was rejected by its timer while a call without one,
\* for the same user, is still pending
C15_Witness ==
  \E i, j \in PromiseIds :
    /\ Called(i) /\ resolves[i].state = "rejected"
    /\ Pending(j) /\ ~IsNumber(resolves[j].maxTime)
    /\ resolves[i].target = resolves[j].target
    /\ j \in Range(listeners)
    /\ timers = {}

\* C16 (delete ends the lifecycle of a binding): a delete that removes the
\* binding of key K leaves no entry for K.  An update for a key without an
\* entry emits 'new' and then 'update' with undefined as the old data, and
\* stores exactly the record it was called with.  So the update that follows
\* the delete of K creates the binding again, and no field of the deleted
\* binding that the new data lacks is carried over.
C16_LifecycleStep ==
  /\ (lastOp'.op = "delete" /\ ret' # Undefined) =>
       /\ ~MapHas(map', ret'.audioSSRC)
       /\ \A i \in 1..Len(map') : map'[i].val # ret'
  /\ (lastOp'.op = "update" /\ ~MapHas(map, lastOp'.arg.audioSSRC)) =>
       LET data == lastOp'.arg
           A == MapGet(map', data.audioSSRC)
       IN  /\ A = data
           /\ DOMAIN A = DOMAIN data
           /\ Len(emitted') = 2
           /\ emitted'[1].type = "new" /\ emitted'[1].args = << data >>
           /\ emitted'[2].type = "update" /\ emitted'[2].args = << Undefined, data >>
  /\ (lastOp.op = "delete" /\ ret # Undefined /\ lastOp'.op = "update"
        /\ lastOp'.arg.audioSSRC = ret.audioSSRC) =>
       /\ emitted'[1].type = "new"
       /\ \A f \in DOMAIN ret \ DOMAIN lastOp'.arg :
            f \notin DOMAIN MapGet(map', ret.audioSSRC)
C16_Lifecycle == [][C16_LifecycleStep]_vars

\* the last call created, without a userId, the binding of a key that had a
\* binding with a userId before: a resolve call returned that one at once
C16_Witness ==
  /\ lastOp.op = "update"
  /\ Len(emitted) = 2
  /\ emitted[1].type = "new"
  /\ "userId" \notin DOMAIN lastOp.arg
  /\ MapGet(map, lastOp.arg.audioSSRC) = lastOp.arg
  /\ \E i \in PromiseIds :
       /\ Called(i) /\ resolves[i].state = "fulfilled"
       /\ resolves[i].settleCalls = 0
       /\ resolves[i].value.audioSSRC = lastOp.arg.audioSSRC
       /\ "userId" \in DOMAIN resolves[i].value

====
